---- MODULE Spec2Model ----
(***************************************************************************)
(* promiditheus: Prometheus metric values played as MIDI notes.            *)
(*                                                                         *)
(* Modelled from src/src/promiditheus/__init__.py:                         *)
(*   live_main      (Spec)     the polling loop over LiveQueryPlayer       *)
(*   generate_track_for_range (GenSpec)  one GenerateQueryPlayer building  *)
(*                             a MIDI track from a range query             *)
(*   generate_main  (MainSpec) a track per player, then the file is saved  *)
(*   Instrument.clamp (ClampSpec)  the quantizer on its own                *)
(*   LiveQueryPlayer (VoiceSpec)  prep, tick and off of one player, called *)
(*                             in any order                                *)
(*                                                                         *)
(* Metric values are floats in the program.  The model carries them as an  *)
(* integer number of quarters (value = v / 4): every such value and every  *)
(* product (n-1) * value is exact in binary floating point, so round() in  *)
(* the program and RoundHalfEven below agree.                              *)
(***************************************************************************)
EXTENDS Integers, Sequences, FiniteSets, TLC

(* ------------------------------------------------------------------ *)
(* Bounds of the model                                                 *)
(* ------------------------------------------------------------------ *)
NumPlayers == 2
MaxCycles == 2
MaxLatency == 7
MaxSamples == 3
MaxPitches == 6
MaxCalls == 5

(* ------------------------------------------------------------------ *)
(* Program constants                                                   *)
(* ------------------------------------------------------------------ *)
Cadence == 5
TicksPerBeat == 480
Velocity == 127
None == -1

VARIABLES
    \* configuration, fixed after construction
    available_pitches,   \* Instrument.available_pitches of each player
    \* QueryPlayer state
    last_note,           \* QueryPlayer._last_note of each player (None = -1)
    \* LiveQueryPlayer / live_main state
    next_messages,       \* LiveQueryPlayer._next_messages of each player
    port,                \* every message sent to the MIDI port, in order
    pc,                  \* position of live_main
    i,                   \* index of the player the current for-loop is at
    cycle,               \* number of completed loop iterations
    elapsed,             \* time.time() - start
    slept,               \* argument of the last time.sleep call (0 before any)
    call,                \* the last player method called, with its outcome
    \* GenerateQueryPlayer.generate_track_for_range state
    gen,                 \* arguments and query result of the call
    gpc,                 \* position in generate_track_for_range
    k,                   \* index of the next sample of result[0]["values"]
    last_timestamp,      \* local last_timestamp
    track,               \* the mido.MidiTrack being built
    \* generate_main state
    midifile,            \* midifile.tracks
    mpc,                 \* position of generate_main
    \* one call of Instrument.clamp
    quant                \* its instrument, its argument and its outcome

vars == <<available_pitches, last_note, next_messages, port, pc, i, cycle,
          elapsed, slept, call, gen, gpc, k, last_timestamp, track,
          midifile, mpc, quant>>

liveVars == <<next_messages, port, pc, i, cycle, elapsed, slept, call>>
genVars == <<gen, gpc, k, last_timestamp, track>>
mainVars == <<midifile, mpc>>

Players == 1..NumPlayers

\* faulty variant of the channel assignment: every player on channel 0
Channel_AlwaysZero(p) == 0

\* channel=channel of enumerate(config["queries"]): 0-based declaration order
Channel(p) == p - 1

\* Instrument.program_number of the player's instrument (configuration)
ProgramNumber(p) == 10 * p

\* value sets scale.getPitches(*pitch_range) can produce, as MIDI numbers
PitchSets == { <<>>, <<60>>, <<60, 62>>, <<60, 62, 64, 65, 67>> }

\* the instruments of the live players
LivePitchSets == { <<>>, <<60, 62>> }

\* metric values, in quarters: -0.75, 0.0, 0.5, 1.0, 1.5
Values == {-3, 0, 2, 4, 6}

(* ------------------------------------------------------------------ *)
(* Messages (mido.Message)                                             *)
(* ------------------------------------------------------------------ *)
NoteOn(ch, note, t) ==
    [type |-> "note_on", channel |-> ch, note |-> note, velocity |-> Velocity,
     program |-> 0, time |-> t]

NoteOff(ch, note, t) ==
    [type |-> "note_off", channel |-> ch, note |-> note, velocity |-> 64,
     program |-> 0, time |-> t]

ProgramChange(ch, prog) ==
    [type |-> "program_change", channel |-> ch, note |-> 0, velocity |-> 0,
     program |-> prog, time |-> 0]

SetTempo ==
    [type |-> "set_tempo", channel |-> 0, note |-> 0, velocity |-> 0,
     program |-> 0, time |-> 0]

(* ------------------------------------------------------------------ *)
(* Instrument.clamp                                                    *)
(* ------------------------------------------------------------------ *)
\* Python round(a / b) for b > 0: nearest integer, ties to the even one
RoundHalfEven(a, b) ==
    LET q == a \div b
        r == a % b
    IN  IF 2 * r < b THEN q
        ELSE IF 2 * r > b THEN q + 1
        ELSE IF q % 2 = 0 THEN q ELSE q + 1

\* faulty variant of the index: len(...) instead of len(...) - 1
ClampIndex_FullLength(pitches, v) == RoundHalfEven(Len(pitches) * v, 4)

\* idx = round((len(self.available_pitches) - 1) * value), value = v / 4
ClampIndex(pitches, v) == RoundHalfEven((Len(pitches) - 1) * v, 4)

\* list indexing raises IndexError outside -n .. n-1
IndexInRange(pitches, idx) == idx >= -Len(pitches) /\ idx < Len(pitches)

\* self.available_pitches[idx]; a negative idx counts from the end
PitchAt(pitches, idx) ==
    IF idx >= 0 THEN pitches[idx + 1] ELSE pitches[Len(pitches) + idx + 1]

clamp(pitches, v) == PitchAt(pitches, ClampIndex(pitches, v))

(* ------------------------------------------------------------------ *)
(* QueryPlayer                                                         *)
(* ------------------------------------------------------------------ *)
\* faulty variant of _off_message: never returns a note_off
OffMessage_Never(ch, last, msg_time) == << >>

\* faulty variant of _off_message: no `is not None` test
OffMessage_IgnoresNone(ch, last, msg_time) == << NoteOff(ch, last, msg_time) >>

\* _off_message: a note_off for _last_note, or nothing when it is None
OffMessage(ch, last, msg_time) ==
    IF last # None THEN << NoteOff(ch, last, msg_time) >> ELSE << >>

\* faulty variant of _get_messages: no `note != self._last_note` test
GetMessages_NoChangeTest(ch, last, note, msg_time) ==
    (IF last # None THEN << NoteOff(ch, last, msg_time) >> ELSE << >>)
    \o << NoteOn(ch, note, IF last # None THEN 0 ELSE msg_time) >>

\* faulty variant of _get_messages: the note_off follows the note_on
GetMessages_OnBeforeOff(ch, last, note, msg_time) ==
    IF note # last
    THEN << NoteOn(ch, note, IF last # None THEN 0 ELSE msg_time) >>
         \o (IF last # None THEN << NoteOff(ch, last, msg_time) >> ELSE << >>)
    ELSE << >>

\* faulty variant of _get_messages: the note_on keeps msg_time after an off
GetMessages_OnKeepsTime(ch, last, note, msg_time) ==
    IF note # last
    THEN (IF last # None THEN << NoteOff(ch, last, msg_time) >> ELSE << >>)
         \o << NoteOn(ch, note, msg_time) >>
    ELSE << >>

\* _get_messages: the messages returned (the caller sets _last_note = note)
GetMessages(ch, last, note, msg_time) ==
    IF note # last
    THEN LET off_msg == OffMessage(ch, last, msg_time)
             on_msg_time == IF off_msg # << >> THEN 0 ELSE msg_time
         IN  off_msg \o << NoteOn(ch, note, on_msg_time) >>
    ELSE << >>

(* ------------------------------------------------------------------ *)
(* The metric source (Prometheus), as the players see it               *)
(* ------------------------------------------------------------------ *)
\* what one instant query can come back with (LiveQueryPlayer._get_note):
\*   ok          one result row whose value parses as the float value / 4
\*   nan         one result row whose value is "NaN"
\*   empty       an empty result list
\*   conn_error  requests raises ConnectionError
Outcomes ==
    { [kind |-> "ok", value |-> v] : v \in Values }
    \cup { [kind |-> x, value |-> 0] : x \in {"nan", "empty", "conn_error"} }

\* seconds one prep (query and processing) can take
Latencies == {0, 2, MaxLatency}

\* The exception _get_note raises for an outcome, "none" when it returns:
\* requests.get raises ConnectionError; result[0] raises IndexError on an
\* empty result; round(nan) raises ValueError; available_pitches[idx]
\* raises IndexError when idx is out of range.
GetNoteException(pitches, o) ==
    CASE o.kind = "conn_error" -> "ConnectionError"
      [] o.kind = "empty" -> "IndexError"
      [] o.kind = "nan" -> "ValueError"
      [] OTHER -> IF IndexInRange(pitches, ClampIndex(pitches, o.value))
                  THEN "none" ELSE "IndexError"

\* except (IndexError, requests.exceptions.ConnectionError) in live_main
CaughtInLoop == {"IndexError", "ConnectionError"}

(* ------------------------------------------------------------------ *)
(* live_main                                                           *)
(* ------------------------------------------------------------------ *)
Running == pc \in {"prep", "tick", "sleep"}

\* faulty variant of the construction: no program_change is sent
ConstructedPort_Silent == << >>

\* LiveQueryPlayer.__init__ of every player, in declaration order: each
\* sends its program_change and starts with no pending messages
ConstructedPort ==
    [p \in Players |-> ProgramChange(Channel(p), ProgramNumber(p))]

\* no call of Instrument.clamp is looked at on its own
ClampIdle ==
    quant = [pc |-> "idle", pitches |-> << >>, value |-> 0, exc |-> "none",
         result |-> None]

\* generate_main is not running
MainIdle ==
    /\ midifile = << >>
    /\ mpc = "idle"

GenIdle ==
    /\ gen = [player |-> 1, start |-> 0, end |-> 0, factor |-> 1,
              values |-> << >>]
    /\ gpc = "idle"
    /\ k = 1
    /\ last_timestamp = 0
    /\ track = << >>

Init ==
    /\ available_pitches \in [Players -> LivePitchSets]
    /\ last_note = [p \in Players |-> None]
    /\ next_messages = [p \in Players |-> << >>]
    /\ port = ConstructedPort
    /\ pc = "prep"
    /\ i = 1
    /\ cycle = 0
    /\ elapsed = 0
    /\ slept = 0
    /\ call = [op |-> "init", player |-> 0, exc |-> "none", note |-> None]
    /\ GenIdle
    /\ MainIdle
    /\ ClampIdle

\* faulty variant of the prep loop: each player is ticked right after its
\* prep (one loop doing both)
NextInPrepLoop_TicksAtOnce ==
    /\ i' = 1
    /\ pc' = "tick"

\* the prep for-loop moves on to the next player, or to the tick for-loop
NextInPrepLoop ==
    IF i < NumPlayers
    THEN /\ i' = i + 1
         /\ pc' = "prep"
    ELSE /\ i' = 1
         /\ pc' = "tick"

\* one iteration of `for player in players: try: player.prep() except ...`
Prep ==
    /\ pc = "prep"
    /\ cycle < MaxCycles
    /\ \E o \in Outcomes, lat \in Latencies :
         LET exc == GetNoteException(available_pitches[i], o)
             note == IF exc = "none"
                     THEN clamp(available_pitches[i], o.value) ELSE None
         IN  /\ elapsed' = elapsed + lat
             /\ call' = [op |-> "prep", player |-> i, exc |-> exc,
                         note |-> note]
             /\ IF exc = "none"
                THEN /\ next_messages' =
                          [next_messages EXCEPT
                             ![i] = GetMessages(Channel(i), last_note[i], note, 0)]
                     /\ last_note' = [last_note EXCEPT ![i] = note]
                     /\ NextInPrepLoop
                ELSE IF exc \in CaughtInLoop
                THEN /\ UNCHANGED <<next_messages, last_note>>
                     /\ NextInPrepLoop
                ELSE /\ UNCHANGED <<next_messages, last_note, i>>
                     /\ pc' = "crashed"
    /\ UNCHANGED <<available_pitches, port, cycle, slept>>
    /\ UNCHANGED genVars
    /\ UNCHANGED <<mainVars, quant>>

\* faulty variant of tick: sends the pending messages and keeps them
Tick_KeepsPending ==
    /\ pc = "tick"
    /\ port' = port \o next_messages[i]
    /\ call' = [op |-> "tick", player |-> i, exc |-> "none", note |-> None]
    /\ IF i < NumPlayers
       THEN /\ i' = i + 1
            /\ pc' = "tick"
       ELSE /\ i' = 1
            /\ pc' = "sleep"
    /\ UNCHANGED <<available_pitches, last_note, next_messages, cycle,
                   elapsed, slept>>
    /\ UNCHANGED genVars
    /\ UNCHANGED <<mainVars, quant>>

\* one iteration of `for player in players: player.tick()`
Tick ==
    /\ pc = "tick"
    /\ port' = port \o next_messages[i]
    /\ next_messages' = [next_messages EXCEPT ![i] = << >>]
    /\ call' = [op |-> "tick", player |-> i, exc |-> "none", note |-> None]
    /\ IF i < NumPlayers
       THEN /\ i' = i + 1
            /\ pc' = "tick"
       ELSE /\ i' = 1
            /\ pc' = "sleep"
    /\ UNCHANGED <<available_pitches, last_note, cycle, elapsed, slept>>
    /\ UNCHANGED genVars
    /\ UNCHANGED <<mainVars, quant>>

\* delta = (start + 5) - time.time(); time.sleep(delta): time.sleep raises
\* ValueError for a negative argument, which nothing catches
Sleep ==
    /\ pc = "sleep"
    /\ LET delta == Cadence - elapsed
       IN  /\ slept' = delta
           /\ IF delta >= 0
              THEN /\ pc' = "prep"
                   /\ cycle' = cycle + 1
                   /\ elapsed' = 0
                   /\ call' = [op |-> "sleep", player |-> 0, exc |-> "none",
                               note |-> None]
              ELSE /\ pc' = "crashed"
                   /\ call' = [op |-> "sleep", player |-> 0,
                               exc |-> "ValueError", note |-> None]
                   /\ UNCHANGED <<cycle, elapsed>>
    /\ UNCHANGED <<available_pitches, last_note, next_messages, port, i>>
    /\ UNCHANGED genVars
    /\ UNCHANGED <<mainVars, quant>>

\* the process is interrupted (KeyboardInterrupt, a signal): live_main has
\* no handler and no finally block, so nothing more is sent to the port
Interrupt ==
    /\ Running
    /\ pc' = "stopped"
    /\ UNCHANGED <<available_pitches, last_note, next_messages, port, i,
                   cycle, elapsed, slept, call>>
    /\ UNCHANGED genVars
    /\ UNCHANGED <<mainVars, quant>>

Next == Prep \/ Tick \/ Sleep \/ Interrupt

Spec == Init /\ [][Next]_vars

(* ------------------------------------------------------------------ *)
(* GenerateQueryPlayer.generate_track_for_range                        *)
(* ------------------------------------------------------------------ *)
\* int(x) of a rational a / b with b > 0: truncation toward zero
TruncDiv(a, b) == IF a >= 0 THEN a \div b ELSE -((-a) \div b)

\* faulty variant of scale_delta: the speed-up factor is left out
scale_delta_NoFactor(delta, factor) == delta * TicksPerBeat

\* scale_delta: int((delta / factor) * ticks_per_beat); for the deltas and
\* factors below the float product truncates like the exact quotient
scale_delta(delta, factor) == TruncDiv(delta * TicksPerBeat, factor)

\* timestamps and values (in quarters) of the samples a range query returns
Timestamps == {0, 10, 20}
GenValues == {0, 2, 4, 6}
Samples == Timestamps \X GenValues
SampleLists == UNION { [1..n -> Samples] : n \in 0..MaxSamples }

\* --range and --speed-up-factor
Starts == {0}
Ends == {20, 30}
Factors == {1, 7}

\* what the range query can come back with (_do_query, result[0]["values"])
RangeResults ==
    { [kind |-> "ok", values |-> vs] : vs \in SampleLists }
    \cup { [kind |-> x, values |-> << >>] : x \in {"empty", "conn_error"} }

\* the results the range queries of a whole generate_main run draw from
MainResults ==
    { [kind |-> "ok", values |-> vs] :
        vs \in { << >>, << <<0, 0>> >>, << <<0, 0>>, <<10, 4>> >>,
                 << <<0, 6>> >> } }
    \cup { [kind |-> x, values |-> << >>] : x \in {"empty", "conn_error"} }

\* what self._do_query(query) returns or raises in this call
QueryResults == IF mpc = "idle" THEN RangeResults ELSE MainResults

LiveIdle ==
    /\ next_messages = [p \in Players |-> << >>]
    /\ port = << >>
    /\ pc = "idle"
    /\ i = 1
    /\ cycle = 0
    /\ elapsed = 0
    /\ slept = 0
    /\ call = [op |-> "init", player |-> 0, exc |-> "none", note |-> None]

\* a GenerateQueryPlayer built by get_players_from_config(config, None)
\* and the arguments generate_main passes to generate_track_for_range
GenInit ==
    /\ \E ps \in PitchSets : available_pitches = [p \in Players |-> ps]
    /\ last_note = [p \in Players |-> None]
    /\ gen \in [player : Players, start : Starts, end : Ends,
                factor : Factors, values : {<< >>}]
    /\ gpc = "query"
    /\ k = 1
    /\ last_timestamp = 0
    /\ track = << >>
    /\ LiveIdle
    /\ MainIdle
    /\ ClampIdle

\* result = self._do_query(query); the track is created with its set_tempo
\* and program_change; last_timestamp = start; result[0]["values"] is read
GenBegin ==
    /\ gpc = "query"
    /\ \E r \in QueryResults :
         IF r.kind = "ok"
         THEN /\ gen' = [gen EXCEPT !.values = r.values]
              /\ track' = << SetTempo,
                             ProgramChange(Channel(gen.player),
                                           ProgramNumber(gen.player)) >>
              /\ last_timestamp' = gen.start
              /\ gpc' = "loop"
         ELSE /\ gpc' = "aborted"
              /\ UNCHANGED <<gen, track, last_timestamp>>
    /\ UNCHANGED <<available_pitches, last_note, k>>
    /\ UNCHANGED liveVars
    /\ UNCHANGED <<mainVars, quant>>

\* faulty variant of the loop body: last_timestamp follows every sample
GenSample_AlwaysAdvances ==
    /\ gpc = "loop"
    /\ k <= Len(gen.values)
    /\ LET p == gen.player
           timestamp == gen.values[k][1]
           value == gen.values[k][2]
           delta == timestamp - last_timestamp
           pitches == available_pitches[p]
       IN  IF IndexInRange(pitches, ClampIndex(pitches, value))
           THEN LET note == clamp(pitches, value)
                    msgs == GetMessages(Channel(p), last_note[p], note,
                                        scale_delta(delta, gen.factor))
                IN  /\ last_note' = [last_note EXCEPT ![p] = note]
                    /\ track' = track \o msgs
                    /\ last_timestamp' = timestamp
                    /\ k' = k + 1
                    /\ gpc' = "loop"
           ELSE /\ gpc' = "aborted"
                /\ UNCHANGED <<last_note, track, last_timestamp, k>>
    /\ UNCHANGED <<available_pitches, gen>>
    /\ UNCHANGED liveVars
    /\ UNCHANGED <<mainVars, quant>>

\* one iteration of `for timestamp, value in result[0]["values"]`
GenSample ==
    /\ gpc = "loop"
    /\ k <= Len(gen.values)
    /\ LET p == gen.player
           timestamp == gen.values[k][1]
           value == gen.values[k][2]
           delta == timestamp - last_timestamp
           pitches == available_pitches[p]
       IN  IF IndexInRange(pitches, ClampIndex(pitches, value))
           THEN LET note == clamp(pitches, value)
                    msgs == GetMessages(Channel(p), last_note[p], note,
                                        scale_delta(delta, gen.factor))
                IN  /\ last_note' = [last_note EXCEPT ![p] = note]
                    /\ IF msgs # << >>
                       THEN /\ track' = track \o msgs
                            /\ last_timestamp' = timestamp
                       ELSE UNCHANGED <<track, last_timestamp>>
                    /\ k' = k + 1
                    /\ gpc' = "loop"
           ELSE /\ gpc' = "aborted"
                /\ UNCHANGED <<last_note, track, last_timestamp, k>>
    /\ UNCHANGED <<available_pitches, gen>>
    /\ UNCHANGED liveVars
    /\ UNCHANGED <<mainVars, quant>>

\* after the loop: the final _off_message is appended, the track returned
GenClose ==
    /\ gpc = "loop"
    /\ k > Len(gen.values)
    /\ LET p == gen.player
           end_delta == gen.end - last_timestamp
       IN  track' = track \o OffMessage(Channel(p), last_note[p],
                                        scale_delta(end_delta, gen.factor))
    /\ gpc' = "returned"
    /\ UNCHANGED <<available_pitches, last_note, gen, k, last_timestamp>>
    /\ UNCHANGED liveVars
    /\ UNCHANGED <<mainVars, quant>>

GenNext == GenBegin \/ GenSample \/ GenClose

GenSpec == GenInit /\ [][GenNext]_vars

(* ------------------------------------------------------------------ *)
(* generate_main                                                       *)
(* ------------------------------------------------------------------ *)
\* players = get_players_from_config(config, None); midifile =
\* mido.MidiFile(); the for-loop is about to call the first player
MainInit ==
    /\ \E ps \in PitchSets : available_pitches = [p \in Players |-> ps]
    /\ last_note = [p \in Players |-> None]
    /\ gen \in [player : {1}, start : Starts, end : Ends,
                factor : Factors, values : {<< >>}]
    /\ gpc = "query"
    /\ k = 1
    /\ last_timestamp = 0
    /\ track = << >>
    /\ midifile = << >>
    /\ mpc = "loop"
    /\ LiveIdle
    /\ ClampIdle

\* midifile.tracks.append(<the returned track>), then the for-loop calls
\* the next player with the same arguments, or ends
MainAppend ==
    /\ mpc = "loop"
    /\ gpc = "returned"
    /\ midifile' = Append(midifile, track)
    /\ IF gen.player < NumPlayers
       THEN /\ gen' = [gen EXCEPT !.player = @ + 1, !.values = << >>]
            /\ gpc' = "query"
            /\ k' = 1
            /\ last_timestamp' = 0
            /\ track' = << >>
            /\ mpc' = "loop"
       ELSE /\ mpc' = "save"
            /\ UNCHANGED genVars
    /\ UNCHANGED <<available_pitches, last_note, quant>>
    /\ UNCHANGED liveVars

\* faulty variant of the save: it also runs after a failed track build
MainSave_AfterFailure ==
    /\ \/ mpc = "save"
       \/ mpc = "loop" /\ gpc = "aborted"
    /\ mpc' = "saved"
    /\ UNCHANGED <<available_pitches, last_note, midifile, quant>>
    /\ UNCHANGED genVars
    /\ UNCHANGED liveVars

\* midifile.save(args.output_file), after the for-loop
MainSave ==
    /\ mpc = "save"
    /\ mpc' = "saved"
    /\ UNCHANGED <<available_pitches, last_note, midifile, quant>>
    /\ UNCHANGED genVars
    /\ UNCHANGED liveVars

MainNext == GenBegin \/ GenSample \/ GenClose \/ MainAppend \/ MainSave

MainSpec == MainInit /\ [][MainNext]_vars

(* ------------------------------------------------------------------ *)
(* Instrument.clamp on its own                                         *)
(* ------------------------------------------------------------------ *)
\* the pitches of C major from C4 on; an instrument holds the first n
ScalePitches == <<60, 62, 64, 65, 67, 69, 71, 72, 74, 76>>
ClampPitchSets == { SubSeq(ScalePitches, 1, n) : n \in 0..MaxPitches }

\* arguments of clamp, in quarters: -1.0 .. 2.0
ClampValues == -4..8

ClampInit ==
    /\ quant \in [pc : {"input"}, pitches : ClampPitchSets,
                  value : ClampValues, exc : {"none"}, result : {None}]
    /\ available_pitches = [p \in Players |-> << >>]
    /\ last_note = [p \in Players |-> None]
    /\ LiveIdle
    /\ GenIdle
    /\ MainIdle

\* clamp(value): the pitch returned, or the IndexError of the indexing
ClampCall ==
    /\ quant.pc = "input"
    /\ IF IndexInRange(quant.pitches, ClampIndex(quant.pitches, quant.value))
       THEN quant' = [quant EXCEPT
                        !.pc = "done",
                        !.result = clamp(quant.pitches, quant.value)]
       ELSE quant' = [quant EXCEPT !.pc = "done", !.exc = "IndexError"]
    /\ UNCHANGED <<available_pitches, last_note, mainVars>>
    /\ UNCHANGED genVars
    /\ UNCHANGED liveVars

ClampNext == ClampCall

ClampSpec == ClampInit /\ [][ClampNext]_vars

(* ------------------------------------------------------------------ *)
(* One LiveQueryPlayer, its methods called in any order                *)
(* ------------------------------------------------------------------ *)
\* player i has just been constructed on an open port: its program_change
\* is sent and nothing is pending; no loop is running
VoiceInit ==
    /\ \E ps \in LivePitchSets : available_pitches = [p \in Players |-> ps]
    /\ last_note = [p \in Players |-> None]
    /\ next_messages = [p \in Players |-> << >>]
    /\ i \in Players
    /\ port = << ProgramChange(Channel(i), ProgramNumber(i)) >>
    /\ pc = "voice"
    /\ cycle = 0
    /\ elapsed = 0
    /\ slept = 0
    /\ call = [op |-> "init", player |-> 0, exc |-> "none", note |-> None]
    /\ GenIdle
    /\ MainIdle
    /\ ClampIdle

\* player.prep(): note = self._get_note(), which may raise to the caller;
\* self._next_messages = self._get_messages(note)
VoicePrep ==
    /\ pc = "voice"
    /\ cycle < MaxCalls
    /\ cycle' = cycle + 1
    /\ \E o \in Outcomes :
         LET exc == GetNoteException(available_pitches[i], o)
             note == IF exc = "none"
                     THEN clamp(available_pitches[i], o.value) ELSE None
         IN  /\ call' = [op |-> "prep", player |-> i, exc |-> exc,
                         note |-> note]
             /\ IF exc = "none"
                THEN /\ next_messages' =
                          [next_messages EXCEPT
                             ![i] = GetMessages(Channel(i), last_note[i],
                                                note, 0)]
                     /\ last_note' = [last_note EXCEPT ![i] = note]
                ELSE UNCHANGED <<next_messages, last_note>>
    /\ UNCHANGED <<available_pitches, port, pc, i, elapsed, slept>>
    /\ UNCHANGED genVars
    /\ UNCHANGED <<mainVars, quant>>

\* player.tick(): the pending messages are sent and forgotten
VoiceTick ==
    /\ pc = "voice"
    /\ cycle < MaxCalls
    /\ cycle' = cycle + 1
    /\ port' = port \o next_messages[i]
    /\ next_messages' = [next_messages EXCEPT ![i] = << >>]
    /\ call' = [op |-> "tick", player |-> i, exc |-> "none", note |-> None]
    /\ UNCHANGED <<available_pitches, last_note, pc, i, elapsed, slept>>
    /\ UNCHANGED genVars
    /\ UNCHANGED <<mainVars, quant>>

\* faulty variant of off: forgets the note it has turned off
VoiceOff_ClearsLastNote ==
    /\ pc = "voice"
    /\ cycle < MaxCalls
    /\ cycle' = cycle + 1
    /\ port' = port \o OffMessage(Channel(i), last_note[i], 0)
    /\ last_note' = [last_note EXCEPT ![i] = None]
    /\ call' = [op |-> "off", player |-> i, exc |-> "none", note |-> None]
    /\ UNCHANGED <<available_pitches, next_messages, pc, i, elapsed, slept>>
    /\ UNCHANGED genVars
    /\ UNCHANGED <<mainVars, quant>>

\* player.off(): for msg in self._off_message(): self._port.send(msg);
\* _last_note and _next_messages are not assigned
VoiceOff ==
    /\ pc = "voice"
    /\ cycle < MaxCalls
    /\ cycle' = cycle + 1
    /\ port' = port \o OffMessage(Channel(i), last_note[i], 0)
    /\ call' = [op |-> "off", player |-> i, exc |-> "none", note |-> None]
    /\ UNCHANGED <<available_pitches, last_note, next_messages, pc, i,
                   elapsed, slept>>
    /\ UNCHANGED genVars
    /\ UNCHANGED <<mainVars, quant>>

VoiceNext == VoicePrep \/ VoiceTick \/ VoiceOff

VoiceSpec == VoiceInit /\ [][VoiceNext]_vars

(* ------------------------------------------------------------------ *)
(* Helpers of the properties                                           *)
(* ------------------------------------------------------------------ *)
\* a step of live_main that ran player i's prep (also one that raised)
PrepStep ==
    /\ pc = "prep"
    /\ pc' \in {"prep", "tick", "crashed"}
    /\ (i' # i \/ pc' # pc)

\* a step of live_main that ran player i's tick
TickStep ==
    /\ pc = "tick"
    /\ pc' \in {"tick", "sleep"}
    /\ (i' # i \/ pc' # pc)

\* the notes of a channel that a message stream turned on and not off again
SoundingNotes(log, ch) ==
    { log[a].note : a \in { b \in DOMAIN log :
        /\ log[b].type = "note_on"
        /\ log[b].channel = ch
        /\ ~ \E c \in DOMAIN log :
               /\ c > b
               /\ log[c].type = "note_off"
               /\ log[c].channel = ch
               /\ log[c].note = log[b].note } }

IsNoteOn(m) == m.type = "note_on"
IsNoteOff(m) == m.type = "note_off"
IsNote(m) == m.type \in {"note_on", "note_off"}

(* ------------------------------------------------------------------ *)
(* Properties of the live loop (Spec)                                  *)
(* ------------------------------------------------------------------ *)

\* C1: idempotence of the note-change detection.  A prep whose value
\* quantizes to the player's current _last_note leaves no messages pending
\* and leaves _last_note as it was, so the same value twice in a row sends
\* messages only the first time.
C1_Idempotent ==
    [][ (PrepStep /\ call'.exc = "none" /\ call'.note = last_note[i])
        => (next_messages'[i] = << >> /\ last_note' = last_note) ]_vars

\* C1 witness: a prep succeeded with the note that the player had already
\* sounded in an earlier cycle, and nothing is pending for it.
C1_Witness ==
    /\ call.op = "prep"
    /\ call.exc = "none"
    /\ cycle >= 1
    /\ call.note = last_note[call.player]
    /\ next_messages[call.player] = << >>
    /\ \E a \in DOMAIN port :
         port[a] = NoteOn(Channel(call.player), call.note, 0)

\* C2: off before on.  A prep that detects a note change while a previous
\* note exists leaves exactly the note_off of the old note followed by the
\* note_on of the new note pending, both on the player's channel.
C2_OffBeforeOn ==
    [][ (PrepStep /\ call'.exc = "none" /\ last_note[i] # None
           /\ call'.note # last_note[i])
        => next_messages'[i] =
             << NoteOff(Channel(i), last_note[i], 0),
                NoteOn(Channel(i), call'.note, 0) >> ]_vars

\* C2 witness: a note change with a previous note left an off/on pair.
C2_Witness ==
    /\ call.op = "prep"
    /\ call.exc = "none"
    /\ Len(next_messages[call.player]) = 2
    /\ next_messages[call.player][1].type = "note_off"
    /\ next_messages[call.player][2].type = "note_on"
    /\ next_messages[call.player][1].note # next_messages[call.player][2].note

\* C3: drift compensation never sleeps a negative duration: time.sleep is
\* never handed a negative argument, and a cycle longer than the cadence
\* does not end the loop.
C3_NoNegativeSleep ==
    /\ slept >= 0
    /\ ~ (pc = "crashed" /\ call.op = "sleep")

\* C4: failure isolation.  No failure of one player's prep (empty result,
\* transport failure, value that cannot be turned into a note) ends the
\* loop: after a failing prep the loop goes on with the next player.
C4_FailureIsolation ==
    ~ (call.op = "prep" /\ call.exc # "none" /\ pc = "crashed")

\* C5: a failed prep changes nothing for its player.  When prep raises,
\* _last_note is as before and nothing is pending for the player; nobody
\* else's prep touches the player's pending messages; and the tick sends
\* exactly the pending messages, so the tick after a failed prep sends
\* nothing for the player.
C5_FailedPrepNoChange ==
    [][ /\ (PrepStep /\ call'.exc # "none")
           => (last_note' = last_note /\ next_messages'[i] = << >>)
        /\ PrepStep
           => \A p \in Players \ {i} : next_messages'[p] = next_messages[p]
        /\ TickStep => port' = port \o next_messages[i] ]_vars

\* C5 witness: a prep failed, and was caught, for a player that has a note
\* sounding from an earlier cycle.
C5_Witness ==
    /\ call.op = "prep"
    /\ call.exc \in CaughtInLoop
    /\ cycle >= 1
    /\ last_note[call.player] # None
    /\ next_messages[call.player] = << >>
    /\ last_note[call.player] \in SoundingNotes(port, Channel(call.player))

\* C6: shutdown silences held notes.  When the live loop has been stopped,
\* no note that was turned on at the port is left without its note_off.
C6_ShutdownSilences ==
    pc = "stopped" => \A p \in Players : SoundingNotes(port, Channel(p)) = {}

(* ------------------------------------------------------------------ *)
(* Properties of the track builder (GenSpec)                           *)
(* ------------------------------------------------------------------ *)
RECURSIVE SumTimes(_)
\* the sum of the time offsets of a message sequence
SumTimes(msgs) ==
    IF msgs = << >> THEN 0 ELSE Head(msgs).time + SumTimes(Tail(msgs))

Abs(x) == IF x >= 0 THEN x ELSE -x

\* the player generate_track_for_range runs on
GenPitches == available_pitches[gen.player]
GenChannel == Channel(gen.player)

\* the samples [(0,0.0),(10,0.0),(20,1.0)] with start=0, end=20, factor=1
ScenarioInput ==
    /\ gen.values = << <<0, 0>>, <<10, 0>>, <<20, 4>> >>
    /\ gen.start = 0
    /\ gen.end = 20
    /\ gen.factor = 1

\* C7 as stated: the scenario's track holds the program_change, a single
\* note_on, carrying time 9600, and ends with a note_off carrying time 0.
C7_ScenarioAsStated ==
    (ScenarioInput /\ gpc = "returned")
    => LET ons == SelectSeq(track, IsNoteOn)
       IN  /\ \E a \in DOMAIN track : track[a].type = "program_change"
           /\ Len(ons) = 1
           /\ ons[1].time = 9600
           /\ track[Len(track)].type = "note_off"
           /\ track[Len(track)].time = 0

\* C7 amended: with a value set of at least two elements the scenario has
\* two state changes, at t=0 and at t=20 (t=10 changes nothing), and the
\* track is set_tempo, program_change, note_on(first) at 0, note_off(first)
\* at 9600, note_on(last) at 0 and a final note_off(last) at 0.
C7_Scenario ==
    (ScenarioInput /\ Len(GenPitches) >= 2)
    => LET first == GenPitches[1]
           last == GenPitches[Len(GenPitches)]
           head == << SetTempo,
                      ProgramChange(GenChannel, ProgramNumber(gen.player)),
                      NoteOn(GenChannel, first, 0) >>
           change == << NoteOff(GenChannel, first, 9600),
                        NoteOn(GenChannel, last, 0) >>
       IN  /\ gpc # "aborted"
           /\ (gpc = "loop" /\ k \in {2, 3})
              => (track = head /\ last_timestamp = 0)
           /\ (gpc = "loop" /\ k = 4)
              => (track = head \o change /\ last_timestamp = 20)
           /\ gpc = "returned"
              => track = head \o change \o << NoteOff(GenChannel, last, 0) >>

\* C7 witness: the scenario's track has been built for a value set of at
\* least two elements.
C7_Witness ==
    /\ ScenarioInput
    /\ Len(GenPitches) >= 2
    /\ gpc = "returned"
    /\ Len(track) = 6

\* C8: track termination.  A track built from a non-empty sample sequence
\* ends with the note_off of the note of its last note_on, carrying the
\* offset scaled from end - last_timestamp, and leaves no note on.
C8_TrackTermination ==
    (gpc = "returned" /\ gen.values # << >>)
    => LET ons == SelectSeq(track, IsNoteOn)
       IN  /\ ons # << >>
           /\ track[Len(track)] =
                NoteOff(GenChannel, ons[Len(ons)].note,
                        scale_delta(gen.end - last_timestamp, gen.factor))
           /\ SoundingNotes(track, GenChannel) = {}

\* C8 witness: a built track with several note changes whose final
\* note_off comes some time after the last change.
C8_Witness ==
    /\ gpc = "returned"
    /\ Len(gen.values) >= 2
    /\ Len(SelectSeq(track, IsNoteOn)) >= 2
    /\ track[Len(track)].type = "note_off"
    /\ track[Len(track)].time > 0

\* floor(((end - start) / factor) * ticksPerUnit)
ExpectedTicks == ((gen.end - gen.start) * TicksPerBeat) \div gen.factor

\* C9 as stated: in every built track the time offsets sum to
\* floor(((end - start) / factor) * ticksPerUnit), give or take one unit
\* per event of the track.
C9_TimeConservationAsStated ==
    gpc = "returned"
    => Abs(SumTimes(track) - ExpectedTicks) <= Len(track)

\* C9 amended: in every track built from a non-empty sample sequence the
\* time offsets sum to floor(((end - start) / factor) * ticksPerUnit),
\* give or take one unit per event of the track; the bound checked counts
\* the note events only (set_tempo and program_change carry no time).
C9_TimeConservation ==
    (gpc = "returned" /\ gen.values # << >>)
    => Abs(SumTimes(track) - ExpectedTicks) <= Len(SelectSeq(track, IsNote))

\* C9 witness: a built track with a speed-up factor that does not divide
\* the deltas, so that scaling truncates, and whose sum is off by that.
C9_Witness ==
    /\ gpc = "returned"
    /\ gen.values # << >>
    /\ gen.factor = 7
    /\ SumTimes(track) # ExpectedTicks
    /\ Len(SelectSeq(track, IsNoteOn)) >= 2

\* C10: no message of a built track carries a negative time offset,
\* whatever the order of the timestamps the source returned; the live
\* port only ever sees time offset 0.
C10_NonNegativeTime ==
    /\ \A a \in DOMAIN track : track[a].time >= 0
    /\ \A a \in DOMAIN port : port[a].time = 0

(* ------------------------------------------------------------------ *)
(* Properties of the quantizer (ClampSpec)                             *)
(* ------------------------------------------------------------------ *)
\* j is the integer nearest to (n - 1) * v / 4, the even one of the two
\* when it lies half way between two integers
NearestTiesEven(j, n, v) ==
    LET d == Abs(4 * j - (n - 1) * v)
    IN  d < 2 \/ (d = 2 /\ j % 2 = 0)

\* C11: totality of the quantizer on [0,1].  For a value set of n >= 1
\* elements and a value in [0,1], clamp raises nothing and returns the
\* element at index round((n-1) * value), an element of the value set;
\* clamp(0) is the first element and clamp(1) the last.
C11_ClampTotal ==
    (quant.pc = "done" /\ Len(quant.pitches) >= 1 /\ quant.value \in 0..4)
    => LET n == Len(quant.pitches)
       IN  /\ quant.exc = "none"
           /\ \E j \in 0..(n - 1) :
                /\ NearestTiesEven(j, n, quant.value)
                /\ quant.result = quant.pitches[j + 1]
           /\ quant.value = 0 => quant.result = quant.pitches[1]
           /\ quant.value = 4 => quant.result = quant.pitches[n]

\* C11 witness: clamp(0.5) on four pitches, where 1.5 rounds to index 2.
C11_Witness ==
    /\ quant.pc = "done"
    /\ Len(quant.pitches) = 4
    /\ quant.value = 2
    /\ quant.exc = "none"
    /\ quant.result = quant.pitches[3]

(* ------------------------------------------------------------------ *)
(* Properties of the track builder, continued (GenSpec)                *)
(* ------------------------------------------------------------------ *)
\* the sample the loop of generate_track_for_range is at
AtSample == gpc = "loop" /\ k <= Len(gen.values)
SampleTimestamp == gen.values[k][1]
SampleValue == gen.values[k][2]

\* C12: an empty value set is rejected when the instrument is built, so
\* it never reaches clamp: no track build is aborted at a sample by the
\* IndexError of indexing an empty available_pitches.
C12_EmptySetRejected ==
    ~ (gpc = "aborted" /\ k <= Len(gen.values) /\ GenPitches = << >>)

\* the messages a step appended to the track
Appended == SubSeq(track', Len(track) + 1, Len(track'))

\* a step that ran the loop body for the sample and did not raise
SampleStep == AtSample /\ k' = k + 1

\* C15: time-offset assignment.  When a sample changes the state, the
\* first message appended carries the scaled delta s and a second one
\* carries 0: a note_off/note_on pair carries (s, 0), and a note_on alone,
\* appended only when the player had no note yet, carries s.
C15_FirstEventCarriesDelta ==
    [][ (SampleStep /\ track' # track)
        => LET s == scale_delta(SampleTimestamp - last_timestamp, gen.factor)
               had_note == last_note[gen.player] # None
           IN  /\ SubSeq(track', 1, Len(track)) = track
               /\ Len(Appended) = (IF had_note THEN 2 ELSE 1)
               /\ Appended[1].time = s
               /\ Appended[1].type = (IF had_note THEN "note_off" ELSE "note_on")
               /\ had_note => (Appended[2].type = "note_on"
                               /\ Appended[2].time = 0) ]_vars

\* C15 witness: the track ends with a note_off carrying a positive scaled
\* delta and the note_on of the same sample carrying 0.
C15_Witness ==
    /\ gpc = "loop"
    /\ Len(track) >= 5
    /\ track[Len(track) - 1].type = "note_off"
    /\ track[Len(track) - 1].time > 0
    /\ track[Len(track)].type = "note_on"
    /\ track[Len(track)].time = 0

\* the indices among the first n samples at which the note changes: the
\* first sample, and every sample whose note differs from the one before
ChangeIndices(n) ==
    { j \in 1..n :
        \/ j = 1
        \/ clamp(GenPitches, gen.values[j][2])
             # clamp(GenPitches, gen.values[j - 1][2]) }

\* the timestamp of the last state-changing sample among the first n, or
\* start when there is none
LastChangeTimestamp(n) ==
    IF ChangeIndices(n) = {} THEN gen.start
    ELSE LET j == CHOOSE c \in ChangeIndices(n) :
                    \A d \in ChangeIndices(n) : d <= c
         IN  gen.values[j][1]

\* C16: delta accumulation.  A sample that appends nothing leaves
\* last_timestamp as it was and a sample that appends messages sets it to
\* its own timestamp; so the first message of a state-changing sample
\* carries the delta, scaled, from the previous state-changing sample (or
\* from start when there was none).
C16_DeltaAccumulates ==
    [][ SampleStep
        => /\ track' = track => last_timestamp' = last_timestamp
           /\ track' # track
              => /\ last_timestamp' = SampleTimestamp
                 /\ Appended[1].time =
                      scale_delta(SampleTimestamp - LastChangeTimestamp(k - 1),
                                  gen.factor) ]_vars

\* C16 witness: two samples were read; the first one, later than start,
\* changed the state and the second one, later still, did not, and
\* last_timestamp is still the first one's timestamp.
C16_Witness ==
    /\ gpc = "loop"
    /\ k = 3
    /\ Len(track) = 3
    /\ last_timestamp = gen.values[1][1]
    /\ last_timestamp # gen.start
    /\ gen.values[2][1] > last_timestamp

\* C17 as stated: a track built from no samples holds the program_change
\* and nothing else, the program_change being its first message.
C17_ZeroSamplesAsStated ==
    (gpc = "returned" /\ gen.values = << >>)
    => (Len(track) = 1 /\ track[1].type = "program_change")

\* C17 amended: a track built from no samples holds the set_tempo meta
\* message followed by the player's program_change and nothing else: no
\* note_on and no terminal note_off.
C17_ZeroSamples ==
    (gpc = "returned" /\ gen.values = << >>)
    => track = << SetTempo,
                  ProgramChange(GenChannel, ProgramNumber(gen.player)) >>

\* C17 witness: a track was built and returned from an empty sample list.
C17_Witness ==
    /\ gpc = "returned"
    /\ gen.values = << >>
    /\ Len(track) = 2
    /\ last_note[gen.player] = None

\* C18: first update.  The first sample of a player with no note yet
\* appends exactly one note_on, for the quantized note, and no note_off;
\* and after every sample that did not raise, whether it appended
\* messages or not, _last_note is the note quantized from its value.
C18_FirstUpdate ==
    [][ SampleStep
        => LET note == clamp(GenPitches, SampleValue)
               s == scale_delta(SampleTimestamp - last_timestamp, gen.factor)
           IN  /\ last_note'[gen.player] = note
               /\ last_note[gen.player] = None
                  => Appended = << NoteOn(GenChannel, note, s) >> ]_vars

\* C18 witness: the first sample, later than start, has been read and the
\* track holds its single note_on after the set_tempo and program_change.
C18_Witness ==
    /\ gpc = "loop"
    /\ k = 2
    /\ Len(track) = 3
    /\ track[3].type = "note_on"
    /\ track[3].note = last_note[gen.player]
    /\ track[3].time > 0

\* C19: the final off.  When the loop is over, exactly one note_off is
\* appended, for the current _last_note on the player's channel, if a
\* note has been sounded, and nothing is appended if none ever was.
C19_FinalOff ==
    [][ (gpc = "loop" /\ gpc' = "returned")
        => LET sounded == \E a \in DOMAIN track : track[a].type = "note_on"
               t == scale_delta(gen.end - last_timestamp, gen.factor)
           IN  Appended = (IF sounded
                           THEN << NoteOff(GenChannel, last_note[gen.player], t) >>
                           ELSE << >>) ]_vars

\* C19 witness: several samples of one and the same note were read and
\* the returned track ends with the single note_off of that note.
C19_Witness ==
    /\ gpc = "returned"
    /\ Len(gen.values) >= 2
    /\ Len(track) = 4
    /\ track[3].type = "note_on"
    /\ track[4] = NoteOff(GenChannel, last_note[gen.player], track[4].time)

(* ------------------------------------------------------------------ *)
(* Properties of the live loop, continued (Spec)                       *)
(* ------------------------------------------------------------------ *)

\* C13: cycle ordering.  Messages reach the port only in the tick phase;
\* the tick phase starts only when the prep of the last player has
\* returned or failed, the preps having run in declaration order; each
\* tick step sends its player's pending messages, all on that player's
\* channel, the players taken in declaration order; and a prep of the
\* next cycle only follows the sleep that follows the last tick.
C13_CycleOrdering ==
    [][ /\ port' # port => pc = "tick"
        /\ (pc # "tick" /\ pc' = "tick")
           => (pc = "prep" /\ i = NumPlayers /\ i' = 1)
        /\ (PrepStep /\ pc' = "prep") => i' = i + 1
        /\ TickStep
           => /\ port' = port \o next_messages[i]
              /\ \A a \in DOMAIN next_messages[i] :
                   next_messages[i][a].channel = Channel(i)
              /\ IF i < NumPlayers
                 THEN pc' = "tick" /\ i' = i + 1
                 ELSE pc' = "sleep"
        /\ (pc # "sleep" /\ pc' = "sleep") => (pc = "tick" /\ i = NumPlayers)
        /\ (pc # "prep" /\ pc' = "prep") => (pc = "sleep" /\ i' = 1) ]_vars

\* C13 witness: in the tick phase of a later cycle the first player's
\* messages of both cycles are at the port while the second player's
\* messages of this cycle are still pending.
C13_Witness ==
    /\ pc = "tick"
    /\ i = 2
    /\ cycle >= 1
    /\ next_messages[2] # << >>
    /\ Len(SelectSeq(port, LAMBDA m : m.channel = Channel(1) /\ IsNote(m))) >= 3

(* ------------------------------------------------------------------ *)
(* Properties of generate_main (MainSpec)                              *)
(* ------------------------------------------------------------------ *)

\* C14: a batch run is all or nothing.  The file is saved only when the
\* track of every player has been built and appended, and a run in which
\* a query or a track build failed never gets to the save.
C14_AllOrNothing ==
    /\ mpc \in {"save", "saved"}
       => (Len(midifile) = NumPlayers /\ gpc = "returned")
    /\ gpc = "aborted" => (mpc = "loop" /\ Len(midifile) < NumPlayers)

\* C14 witness: the build of a later player's track failed after an
\* earlier track had been appended, and nothing was saved.
C14_Witness ==
    /\ gpc = "aborted"
    /\ gen.player >= 2
    /\ Len(midifile) >= 1
    /\ mpc = "loop"

\* C20: one track per player, in configuration order.  The idx-th track
\* of the MidiFile is the one built by the idx-th configured player: it
\* holds that player's program_change, and every MIDI message in it is on
\* channel idx - 1; the file that is saved holds one track per player.
C20_TrackPerPlayer ==
    /\ \A idx \in 1..Len(midifile) :
         /\ \E a \in DOMAIN midifile[idx] :
              midifile[idx][a] = [type |-> "program_change",
                                  channel |-> idx - 1, note |-> 0,
                                  velocity |-> 0,
                                  program |-> ProgramNumber(idx), time |-> 0]
         /\ \A a \in DOMAIN midifile[idx] :
              midifile[idx][a].type # "set_tempo"
              => midifile[idx][a].channel = idx - 1
    /\ mpc \in {"save", "saved"} => Len(midifile) = NumPlayers

\* C20 witness: the file was saved with a sounded note in every track.
C20_Witness ==
    /\ mpc = "saved"
    /\ Len(midifile) = NumPlayers
    /\ \A idx \in 1..Len(midifile) :
         \E a \in DOMAIN midifile[idx] :
            /\ midifile[idx][a].type = "note_on"
            /\ midifile[idx][a].channel = idx - 1

(* ------------------------------------------------------------------ *)
(* Properties of the stream the port receives (Spec)                   *)
(* ------------------------------------------------------------------ *)
\* the note_on and note_off messages of one channel, in the order sent
ChannelNotes(log, ch) ==
    LET OnChannel(m) == IsNote(m) /\ m.channel = ch
    IN  SelectSeq(log, OnChannel)

\* C21: in the stream the port has received, on every channel, note_on
\* and note_off alternate strictly, beginning with a note_on; every
\* note_off names the note of the note_on just before it; so at most one
\* note of a channel is sounding at any time.  This holds in every state,
\* whatever preps succeeded or failed before.
C21_StrictAlternation ==
    \A p \in Players :
        LET s == ChannelNotes(port, Channel(p))
        IN  /\ \A a \in DOMAIN s :
                 IF a % 2 = 1
                 THEN IsNoteOn(s[a])
                 ELSE IsNoteOff(s[a]) /\ s[a].note = s[a - 1].note
            /\ Cardinality(SoundingNotes(port, Channel(p))) <= 1

\* C21 witness: a channel has received a note_on, its note_off and the
\* next note_on, while a player whose every prep failed has no note yet.
C21_Witness ==
    /\ \E p \in Players :
         /\ Len(ChannelNotes(port, Channel(p))) >= 3
         /\ Cardinality(SoundingNotes(port, Channel(p))) = 1
    /\ \E p \in Players : last_note[p] = None
    /\ pc = "sleep"

\* C22: every message a successful prep computed is sent to the port
\* exactly once, by the tick of the same cycle.  The tick sends exactly
\* the player's pending messages and empties them; nothing is pending
\* when a cycle begins, so nothing is sent again in a later cycle; and
\* the loop does not end with computed messages still unsent.
C22_PreparedSentOnce ==
    [][ /\ TickStep
           => (port' = port \o next_messages[i] /\ next_messages'[i] = << >>)
        /\ (pc' = "prep" /\ i' = 1)
           => \A p \in Players : next_messages'[p] = << >>
        /\ pc' = "crashed"
           => \A p \in Players : next_messages'[p] = << >> ]_vars

\* C23: each player's program_change is sent to the port exactly once,
\* at construction: the program_changes of the players, in declaration
\* order, are the first messages of the port, every note_on and note_off
\* comes after them, and no step of the loop adds a program_change.
C23_ProgramChangeOnce ==
    /\ \A p \in Players :
         Cardinality({ a \in DOMAIN port :
                         port[a].type = "program_change"
                         /\ port[a].channel = Channel(p) }) = 1
    /\ Len(port) >= NumPlayers
    /\ \A a \in DOMAIN port :
         IF a <= NumPlayers
         THEN port[a] = ProgramChange(Channel(a), ProgramNumber(a))
         ELSE IsNote(port[a])

\* C23 witness: the loop has run into a later cycle and notes of every
\* player have followed the program_changes.
C23_Witness ==
    /\ cycle >= 1
    /\ \A p \in Players :
         \E a \in DOMAIN port :
            a > NumPlayers /\ IsNoteOn(port[a]) /\ port[a].channel = Channel(p)

(* ------------------------------------------------------------------ *)
(* Properties of one player's methods (VoiceSpec)                      *)
(* ------------------------------------------------------------------ *)
\* a step in which off() was called
OffStep == pc = "voice" /\ call'.op = "off" /\ cycle' = cycle + 1

\* a step in which prep() was called
VoicePrepStep == pc = "voice" /\ call'.op = "prep" /\ cycle' = cycle + 1

\* C24: off() leaves _last_note unchanged.  Every off() of a player with
\* a note sends the note_off of that note, also when the call before it
\* was an off() too, and sends nothing when there is no note; and a prep
\* whose note equals _last_note leaves nothing pending, also when that
\* note has been turned off by off() and is no longer sounding.
C24_OffKeepsLastNote ==
    [][ /\ OffStep
           => /\ last_note' = last_note
              /\ port' = port \o
                   (IF last_note[i] = None THEN << >>
                    ELSE << NoteOff(Channel(i), last_note[i], 0) >>)
        /\ (VoicePrepStep /\ call'.exc = "none" /\ call'.note = last_note[i])
           => (next_messages'[i] = << >> /\ last_note' = last_note) ]_vars

\* C24 witness: a note was sounded, off() was called twice and sent the
\* same note_off twice, and a later prep with the same note left nothing
\* pending although no note is sounding.
C24_Witness ==
    /\ pc = "voice"
    /\ call.op = "prep"
    /\ call.exc = "none"
    /\ call.note = last_note[i]
    /\ next_messages[i] = << >>
    /\ Len(port) = 4
    /\ port[2] = NoteOn(Channel(i), call.note, 0)
    /\ port[3] = NoteOff(Channel(i), call.note, 0)
    /\ port[4] = port[3]
    /\ SoundingNotes(port, Channel(i)) = {}

====
